---------------------------- MODULE Spec2Model ----------------------------
(***************************************************************************)
(* A model of src/train.py of saattrupdan/scandiQA: the command-line entry *)
(* point (lines 153-210), train() (lines 22-99) and evaluate() (lines      *)
(* 103-150), one action per statement that changes the state.              *)
(*                                                                         *)
(* The calls into wandb, transformers and QAPreparer are steps that either *)
(* return or raise.  The squad_v2 metric that evaluate() loads (line 134)  *)
(* and calls (line 147) is modelled by what that metric script computes:   *)
(* answer normalisation, per-example exact match and token F1, and the     *)
(* aggregates of the evaluation dictionary.  Scores are exact rationals    *)
(* <<numerator, denominator>> in lowest terms; the float64 rounding of the *)
(* sums is not modelled.                                                   *)
(***************************************************************************)
EXTENDS Integers, Sequences, FiniteSets

VARIABLES
    argv,           \* sys.argv[1:], the command-line arguments
    pc,             \* the statement the script is about to execute
    error,          \* the exception that aborted the run, "" when none
    exit_code,      \* <<>> while running, <<code>> once the process ended
    squad,          \* <<>> or <<validation split>> once the datasets are loaded
    config,         \* <<>> or <<Config()>>
    wandb,          \* the tracking session: calls of init and of finish
    args,           \* <<>> or <<TrainingArguments>>
    hub,            \* who asked for the model to be published
    score_file,     \* the file <model>-scores.jsonl
    trace,          \* the statements executed so far, in order
    test_dataset,   \* evaluate()'s test_dataset
    predictions,    \* evaluate()'s predictions variable (mapping, then records)
    references,     \* evaluate()'s references list
    metric_scores,  \* <<>> or <<what metric.compute returned>>
    scores          \* <<>> or <<the dictionary evaluate() returned>>

vars == <<argv, pc, error, exit_code, squad, config, wandb, args, hub,
          score_file, trace, test_dataset, predictions, references,
          metric_scores, scores>>

(***************************************************************************)
(* Bounds of the model.                                                    *)
(***************************************************************************)
MaxExamples == 2

(***************************************************************************)
(* Characters and strings.  A string is a sequence of characters.          *)
(***************************************************************************)
Punctuation == {".", ","}
Whitespace == {" "}
Articles == {<<"a">>, <<"a", "n">>, <<"t", "h", "e">>}

LowerChar(c) == IF c = "P" THEN "p" ELSE IF c = "B" THEN "b" ELSE c

lower(text) == [i \in 1..Len(text) |-> LowerChar(text[i])]

IsPunct(c) == c \in Punctuation

remove_punc(text) == SelectSeq(text, LAMBDA c : ~IsPunct(c))

\* str.split(): the maximal runs of non-whitespace characters, in order.
RECURSIVE SplitFrom(_, _, _)
SplitFrom(text, i, word) ==
    IF i > Len(text)
    THEN IF word = <<>> THEN <<>> ELSE <<word>>
    ELSE IF text[i] \in Whitespace
         THEN IF word = <<>>
              THEN SplitFrom(text, i + 1, <<>>)
              ELSE <<word>> \o SplitFrom(text, i + 1, <<>>)
         ELSE SplitFrom(text, i + 1, Append(word, text[i]))

split(text) == SplitFrom(text, 1, <<>>)

\* " ".join(words)
RECURSIVE join(_)
join(words) ==
    IF words = <<>> THEN <<>>
    ELSE IF Len(words) = 1 THEN words[1]
    ELSE words[1] \o <<" ">> \o join(Tail(words))

\* re.sub(r"\b(a|an|the)\b", " ", text) on a text of word characters and
\* whitespace: every whole word that is an article becomes one blank.
RECURSIVE ArticlesFrom(_, _, _)
ArticlesFrom(text, i, word) ==
    LET flush == IF word \in Articles THEN <<" ">> ELSE word
    IN  IF i > Len(text)
        THEN flush
        ELSE IF text[i] \in Whitespace
             THEN flush \o <<text[i]>> \o ArticlesFrom(text, i + 1, <<>>)
             ELSE ArticlesFrom(text, i + 1, Append(word, text[i]))

remove_articles(text) == ArticlesFrom(text, 1, <<>>)

white_space_fix(text) == join(split(text))

normalize_answer(s) ==
    white_space_fix(remove_articles(remove_punc(lower(s))))

get_tokens(s) == IF s = <<>> THEN <<>> ELSE split(normalize_answer(s))

(***************************************************************************)
(* Rationals <<n, d>>, d > 0, in lowest terms.                             *)
(***************************************************************************)
RECURSIVE Gcd(_, _)
Gcd(a, b) == IF b = 0 THEN a ELSE Gcd(b, a % b)

Rat(n, d) == LET g == Gcd(n, d) IN <<n \div g, d \div g>>

RAdd(x, y) == Rat(x[1] * y[2] + y[1] * x[2], x[2] * y[2])

RMul(x, y) == Rat(x[1] * y[1], x[2] * y[2])

RDiv(x, y) == Rat(x[1] * y[2], x[2] * y[1])

RLess(x, y) == x[1] * y[2] < y[1] * x[2]

RMax(x, y) == IF RLess(x, y) THEN y ELSE x

RInt(n) == <<n, 1>>


(***************************************************************************)
(* Python dictionaries: a sequence of entries [k, v] in insertion order,   *)
(* keys distinct.                                                          *)
(***************************************************************************)
DictKeys(d) == {d[i].k : i \in 1..Len(d)}

DictHas(d, key) == key \in DictKeys(d)

DictGet(d, key) == d[CHOOSE i \in 1..Len(d) : d[i].k = key].v

\* d[key] = value: an existing key keeps its place, a new key goes last.
DictSet(d, key, value) ==
    IF DictHas(d, key)
    THEN [i \in 1..Len(d) |-> IF d[i].k = key THEN [k |-> key, v |-> value] ELSE d[i]]
    ELSE Append(d, [k |-> key, v |-> value])

RECURSIVE SumValues(_)
SumValues(d) == IF d = <<>> THEN RInt(0) ELSE RAdd(d[1].v, SumValues(Tail(d)))

(***************************************************************************)
(* The squad_v2 metric: per-example scores.                                *)
(***************************************************************************)
\* A variant that compares the strings as they are.
compute_exact_Unnormalised(a_gold, a_pred) == IF a_gold = a_pred THEN 1 ELSE 0

compute_exact(a_gold, a_pred) ==
    IF normalize_answer(a_gold) = normalize_answer(a_pred) THEN 1 ELSE 0

Count(toks, t) == Cardinality({i \in 1..Len(toks) : toks[i] = t})

Min(a, b) == IF a < b THEN a ELSE b

RECURSIVE SumOver(_, _, _)
SumOver(S, gold_toks, pred_toks) ==
    IF S = {} THEN 0
    ELSE LET t == CHOOSE x \in S : TRUE
         IN  Min(Count(gold_toks, t), Count(pred_toks, t))
             + SumOver(S \ {t}, gold_toks, pred_toks)

\* sum((Counter(gold_toks) & Counter(pred_toks)).values())
num_same(gold_toks, pred_toks) ==
    SumOver({gold_toks[i] : i \in 1..Len(gold_toks)}, gold_toks, pred_toks)

compute_f1(a_gold, a_pred) ==
    LET gold_toks == get_tokens(a_gold)
        pred_toks == get_tokens(a_pred)
        same == num_same(gold_toks, pred_toks)
    IN  IF Len(gold_toks) = 0 \/ Len(pred_toks) = 0
        THEN IF gold_toks = pred_toks THEN RInt(1) ELSE RInt(0)
        ELSE IF same = 0
        THEN RInt(0)
        ELSE LET precision == Rat(same, Len(pred_toks))
                 recall == Rat(same, Len(gold_toks))
             IN  RDiv(RMul(RMul(RInt(2), precision), recall),
                      RAdd(precision, recall))

\* The reference answers that do not normalise to nothing; an example left
\* with none is scored against the empty string.
gold_answers(qa) ==
    LET kept == SelectSeq(qa.answers.text, LAMBDA t : normalize_answer(t) # <<>>)
    IN  IF kept = <<>> THEN << <<>> >> ELSE kept

RECURSIVE MaxExact(_, _)
MaxExact(golds, a_pred) ==
    IF Len(golds) = 1 THEN compute_exact(golds[1], a_pred)
    ELSE LET m == MaxExact(Tail(golds), a_pred)
             e == compute_exact(golds[1], a_pred)
         IN  IF e > m THEN e ELSE m

RECURSIVE MaxF1(_, _)
MaxF1(golds, a_pred) ==
    IF Len(golds) = 1 THEN compute_f1(golds[1], a_pred)
    ELSE RMax(compute_f1(golds[1], a_pred), MaxF1(Tail(golds), a_pred))

\* One pass of get_raw_scores' loop over the references: a reference whose
\* id has no prediction is reported ("Missing prediction") and left out.
ScoreOne(raw, qa, preds) ==
    IF ~DictHas(preds, qa.id)
    THEN raw
    ELSE LET a_pred == DictGet(preds, qa.id)
         IN  [exact |-> DictSet(raw.exact, qa.id,
                                RInt(MaxExact(gold_answers(qa), a_pred))),
              f1 |-> DictSet(raw.f1, qa.id, MaxF1(gold_answers(qa), a_pred))]

RECURSIVE RawFrom(_, _, _, _)
RawFrom(refs, i, preds, raw) ==
    IF i > Len(refs) THEN raw
    ELSE RawFrom(refs, i + 1, preds, ScoreOne(raw, refs[i], preds))

\* A variant that takes the i-th prediction as the answer to the i-th
\* reference.
get_raw_scores_ByPosition(refs, preds) ==
    LET paired == {i \in 1..Len(refs) : i <= Len(preds) /\ DictHas(preds, refs[i].id)}
        by_position == [i \in 1..Len(refs) |-> [k |-> refs[i].id, v |-> preds[Min(i, Len(preds))].v]]
    IN  RawFrom(refs, 1,
                SelectSeq(by_position, LAMBDA e : \E i \in paired : refs[i].id = e.k),
                [exact |-> <<>>, f1 |-> <<>>])

get_raw_scores(refs, preds) == RawFrom(refs, 1, preds, [exact |-> <<>>, f1 |-> <<>>])

(***************************************************************************)
(* The squad_v2 metric: the aggregates.  A result is a record              *)
(* [raised, exact, f1, total]; raised is "" or the exception's type.       *)
(***************************************************************************)
NoAnswerProbability == 0

no_answer_threshold == 1

Raised(type) == [raised |-> type, exact |-> RInt(0), f1 |-> RInt(0), total |-> 0]

\* qid -> bool(qa["answers"]["text"]) over the references.
RECURSIVE HasAnsFrom(_, _, _)
HasAnsFrom(refs, i, d) ==
    IF i > Len(refs) THEN d
    ELSE HasAnsFrom(refs, i + 1,
                    DictSet(d, refs[i].id, refs[i].answers.text # <<>>))

make_qid_to_has_ans(refs) == HasAnsFrom(refs, 1, <<>>)

\* A prediction whose no-answer probability exceeds the threshold is scored
\* as "no answer"; every other score is kept.
apply_no_ans_threshold(raw, na_probs, qid_to_has_ans, na_prob_thresh) ==
    [i \in 1..Len(raw) |->
        IF DictGet(na_probs, raw[i].k) > na_prob_thresh
        THEN [k |-> raw[i].k,
              v |-> IF DictGet(qid_to_has_ans, raw[i].k) THEN RInt(0) ELSE RInt(1)]
        ELSE raw[i]]

Restrict(d, qid_list) == SelectSeq(d, LAMBDA e : e.k \in qid_list)

\* A variant that leaves out the ids of qid_list that have no score.
make_eval_dict_SkipsMissing(exact_scores, f1_scores, qid_list) ==
    IF Len(exact_scores) = 0
    THEN Raised("ZeroDivisionError")
    ELSE [raised |-> "",
          exact |-> RDiv(RMul(RInt(100), SumValues(exact_scores)),
                         RInt(Len(exact_scores))),
          f1 |-> RDiv(RMul(RInt(100), SumValues(f1_scores)),
                      RInt(Len(exact_scores))),
          total |-> Len(exact_scores)]

\* make_eval_dict: 100.0 * sum / total over every score (qid_list empty) or
\* over the scores of qid_list, which must all be there.
make_eval_dict(exact_scores, f1_scores, qid_list) ==
    IF qid_list = {}
    THEN IF Len(exact_scores) = 0
         THEN Raised("ZeroDivisionError")
         ELSE [raised |-> "",
               exact |-> RDiv(RMul(RInt(100), SumValues(exact_scores)),
                              RInt(Len(exact_scores))),
               f1 |-> RDiv(RMul(RInt(100), SumValues(f1_scores)),
                           RInt(Len(exact_scores))),
               total |-> Len(exact_scores)]
    ELSE IF ~(qid_list \subseteq DictKeys(exact_scores))
         THEN Raised("KeyError")
         ELSE [raised |-> "",
               exact |-> RDiv(RMul(RInt(100), SumValues(Restrict(exact_scores, qid_list))),
                              RInt(Cardinality(qid_list))),
               f1 |-> RDiv(RMul(RInt(100), SumValues(Restrict(f1_scores, qid_list))),
                           RInt(Cardinality(qid_list))),
               total |-> Cardinality(qid_list)]

RECURSIVE ToDict(_, _, _)
ToDict(records, i, d) ==
    IF i > Len(records) THEN d
    ELSE ToDict(records, i + 1, DictSet(d, records[i][1], records[i][2]))

\* metric.compute(predictions=..., references=...): the two lists make one
\* batch, so they must be equally long; then the squad_v2 evaluation with
\* its HasAns and NoAns parts.  The result's exact and f1 are the overall
\* ones.
compute(preds_list, refs_list) ==
    IF Len(preds_list) # Len(refs_list)
    THEN Raised("ValueError")
    ELSE
    LET na_probs == ToDict([i \in 1..Len(preds_list) |->
                              <<preds_list[i].id, preds_list[i].no_answer_probability>>],
                           1, <<>>)
        preds == ToDict([i \in 1..Len(preds_list) |->
                           <<preds_list[i].id, preds_list[i].prediction_text>>],
                        1, <<>>)
        qid_to_has_ans == make_qid_to_has_ans(refs_list)
        has_ans_qids == {qid_to_has_ans[i].k :
                            i \in {j \in 1..Len(qid_to_has_ans) : qid_to_has_ans[j].v}}
        no_ans_qids == DictKeys(qid_to_has_ans) \ has_ans_qids
        raw == get_raw_scores(refs_list, preds)
        exact_thresh == apply_no_ans_threshold(raw.exact, na_probs, qid_to_has_ans,
                                               no_answer_threshold)
        f1_thresh == apply_no_ans_threshold(raw.f1, na_probs, qid_to_has_ans,
                                            no_answer_threshold)
        out_eval == make_eval_dict(exact_thresh, f1_thresh, {})
        has_ans_eval == IF has_ans_qids # {}
                        THEN make_eval_dict(exact_thresh, f1_thresh, has_ans_qids)
                        ELSE out_eval
        no_ans_eval == IF no_ans_qids # {}
                       THEN make_eval_dict(exact_thresh, f1_thresh, no_ans_qids)
                       ELSE out_eval
    IN  IF out_eval.raised # "" THEN out_eval
        ELSE IF has_ans_eval.raised # "" THEN has_ans_eval
        ELSE IF no_ans_eval.raised # "" THEN no_ans_eval
        ELSE out_eval

(***************************************************************************)
(* Inputs.  An example is [id, answers |-> [text, answer_start]]; the      *)
(* question and the context are read only by the preparer.  The examples   *)
(* of a split have distinct ids.                                           *)
(***************************************************************************)
IdPool == {"q1", "q2", "q99"}

PredTexts == {<<>>, <<"a", ".">>, <<"p">>}

AnswerLists == {<<>>,
                << <<"P">> >>,
                << <<"b">>, <<"P", ",", " ", "b">> >>}

Example(id, texts) ==
    [id |-> id,
     answers |-> [text |-> texts, answer_start |-> [i \in 1..Len(texts) |-> 0]]]

SeqsUpTo(S, n) == UNION {[1..k -> S] : k \in 0..n}

DistinctIds(seq) == \A i, j \in 1..Len(seq) : seq[i].id = seq[j].id => i = j

DistinctKeys(seq) == \A i, j \in 1..Len(seq) : seq[i].k = seq[j].k => i = j

Datasets ==
    {d \in SeqsUpTo({Example(id, t) : id \in IdPool, t \in AnswerLists}, MaxExamples) :
        DistinctIds(d)}

\* What DatasetDict.from_json can load as the validation split of a run.
SquadFiles == {d \in Datasets : Len(d) <= 1} \cup
              {<<Example("q1", << <<"P">> >>), Example("q2", << <<"P">> >>)>>}

\* What postprocess_predictions can return: a mapping from ids to answer
\* strings, in the order of its keys.
PredictionMaps ==
    {m \in SeqsUpTo([k : IdPool, v : PredTexts], MaxExamples) : DistinctKeys(m)}

Invocations == {<<>>, <<"da">>, <<"sv", "x">>}

(***************************************************************************)
(* The statements of the script, in program order.                         *)
(***************************************************************************)
MainOrder == <<"argv", "load_datasets", "load_config">>

TrainOrder == <<"wandb_init", "preparer", "prepare_train_val", "load_model",
                "training_arguments", "trainer", "fit", "test_dataset">>

EvaluateOrder == <<"prepare_test", "predict", "postprocess", "load_metric",
                   "prediction_records", "reference_records", "compute", "return">>

\* A variant that publishes before the tracking session is closed.
PersistOrder_PushBeforeFinish ==
    <<"print", "open_score_file", "write_scores", "push_to_hub", "wandb_finish", "exit">>

PersistOrder == <<"print", "open_score_file", "write_scores", "wandb_finish",
                  "push_to_hub", "exit">>

\* A variant that opens the score file before it evaluates.
ProgramOrder_FileBeforeEvaluate ==
    MainOrder \o TrainOrder \o <<"open_score_file">> \o EvaluateOrder
        \o <<"print", "write_scores", "wandb_finish", "push_to_hub", "exit">>

ProgramOrder == MainOrder \o TrainOrder \o EvaluateOrder \o PersistOrder

Position(step) == CHOOSE i \in 1..Len(ProgramOrder) : ProgramOrder[i] = step

After(step) == ProgramOrder[Position(step) + 1]

NoError == [type |-> "", at |-> ""]

NoFile == [state |-> "absent", content |-> <<>>]

\* A statement that ran to its end.
Done(step) ==
    /\ pc = step
    /\ pc' = After(step)
    /\ trace' = Append(trace, step)
    /\ error' = error

\* A variant that swallows the exception and goes on.
Raise_Swallowed(step, type) ==
    /\ pc = step
    /\ pc' = After(step)
    /\ trace' = trace
    /\ error' = [type |-> type, at |-> step]

\* A statement that raised: nothing in train.py catches, so the exception
\* leaves train() and the script.
Raise(step, type) ==
    /\ pc = step
    /\ pc' = "exit"
    /\ trace' = trace
    /\ error' = [type |-> type, at |-> step]

inputs == <<argv, squad, config>>

services == <<wandb, args, hub, score_file>>

evaluation == <<test_dataset, predictions, references, metric_scores, scores>>

(***************************************************************************)
(* The entry point, lines 153-210.                                         *)
(***************************************************************************)
\* A variant that goes on without a language code.
CheckArgv_NoCheck ==
    /\ pc = "argv"
    /\ Done("argv")
    /\ UNCHANGED <<exit_code, inputs, services, evaluation>>

\* len(sys.argv) > 1, else raise ValueError('Please provide a language code')
CheckArgv ==
    /\ pc = "argv"
    /\ \/ Len(argv) > 0 /\ Done("argv")
       \/ Len(argv) = 0 /\ Raise("argv", "ValueError")
    /\ UNCHANGED <<exit_code, inputs, services, evaluation>>

LoadDatasets ==
    /\ pc = "load_datasets"
    /\ \/ \E d \in SquadFiles : squad' = <<d>> /\ Done("load_datasets")
       \/ squad' = squad /\ Raise("load_datasets", "FileNotFoundError")
    /\ UNCHANGED <<exit_code, argv, config, services, evaluation>>

LoadConfig ==
    /\ pc = "load_config"
    /\ \/ \E p \in BOOLEAN : config' = <<[push_to_hub |-> p]>> /\ Done("load_config")
       \/ config' = config /\ Raise("load_config", "ExternalError")
    /\ UNCHANGED <<exit_code, argv, squad, services, evaluation>>

\* The interpreter ends: 0 after the last statement, 1 after an exception
\* nothing caught.
Exit ==
    /\ pc = "exit"
    /\ pc' = "exited"
    /\ exit_code' = <<IF error.type = "" THEN 0 ELSE 1>>
    /\ UNCHANGED <<error, trace, inputs, services, evaluation>>

(***************************************************************************)
(* train(), lines 34-99.                                                   *)
(***************************************************************************)
\* wandb.init(...) opens the session; wandb.config = dict(config) follows
\* and may raise with the session open.
WandbInit ==
    /\ pc = "wandb_init"
    /\ \/ wandb' = [wandb EXCEPT !.inits = @ + 1] /\ Done("wandb_init")
       \/ wandb' = wandb /\ Raise("wandb_init", "ExternalError")
       \/ wandb' = [wandb EXCEPT !.inits = @ + 1] /\ Raise("wandb_init", "TypeError")
    /\ UNCHANGED <<exit_code, inputs, args, hub, score_file, evaluation>>

InitPreparer ==
    /\ pc = "preparer"
    /\ \/ Done("preparer")
       \/ Raise("preparer", "ExternalError")
    /\ UNCHANGED <<exit_code, inputs, services, evaluation>>

PrepareTrainVal ==
    /\ pc = "prepare_train_val"
    /\ \/ Done("prepare_train_val")
       \/ Raise("prepare_train_val", "ExternalError")
    /\ UNCHANGED <<exit_code, inputs, services, evaluation>>

LoadModel ==
    /\ pc = "load_model"
    /\ \/ Done("load_model")
       \/ Raise("load_model", "ExternalError")
    /\ UNCHANGED <<exit_code, inputs, services, evaluation>>

\* TrainingArguments(..., push_to_hub=True, hub_model_id=output_model_id)
TrainingArguments == [push_to_hub |-> TRUE]

MakeTrainingArguments ==
    /\ pc = "training_arguments"
    /\ \/ args' = <<TrainingArguments>> /\ Done("training_arguments")
       \/ args' = args /\ Raise("training_arguments", "ExternalError")
    /\ UNCHANGED <<exit_code, inputs, wandb, hub, score_file, evaluation>>

\* Trainer(model, args, ...): a trainer whose arguments say push_to_hub
\* sets up the hub repository and pushes while it trains.
InitTrainer ==
    /\ pc = "trainer"
    /\ \/ /\ hub' = IF args[1].push_to_hub
                    THEN hub \cup {"training_arguments"} ELSE hub
          /\ Done("trainer")
       \/ hub' = hub /\ Raise("trainer", "ExternalError")
    /\ UNCHANGED <<exit_code, inputs, wandb, args, score_file, evaluation>>

Fit ==
    /\ pc = "fit"
    /\ \/ Done("fit")
       \/ Raise("fit", "ExternalError")
    /\ UNCHANGED <<exit_code, inputs, services, evaluation>>

SetTestDataset ==
    /\ pc = "test_dataset"
    /\ test_dataset' = squad[1]
    /\ Done("test_dataset")
    /\ UNCHANGED <<exit_code, inputs, services, predictions, references,
                   metric_scores, scores>>

PrintScores ==
    /\ pc = "print"
    /\ Done("print")
    /\ UNCHANGED <<exit_code, inputs, services, evaluation>>

\* score_path.open('w') creates the file, or empties it.
OpenScoreFile ==
    /\ pc = "open_score_file"
    /\ \/ score_file' = [state |-> "empty", content |-> <<>>] /\ Done("open_score_file")
       \/ score_file' = score_file /\ Raise("open_score_file", "OSError")
    /\ UNCHANGED <<exit_code, inputs, wandb, args, hub, evaluation>>

\* json.dumps of a dictionary: its items in their order.
json_dumps(d) == << <<"em", d.em>>, <<"f1", d.f1>> >>

\* jsonned = json.dumps(scores); f.write(jsonned); the with block closes f.
WriteScores ==
    /\ pc = "write_scores"
    /\ \/ /\ score_file' = [state |-> "complete", content |-> json_dumps(scores[1])]
          /\ Done("write_scores")
       \/ /\ \E left \in {"empty", "partial"} : score_file' = [score_file EXCEPT !.state = left]
          /\ Raise("write_scores", "OSError")
    /\ UNCHANGED <<exit_code, inputs, wandb, args, hub, evaluation>>

WandbFinish ==
    /\ pc = "wandb_finish"
    /\ \/ wandb' = [wandb EXCEPT !.finishes = @ + 1] /\ Done("wandb_finish")
       \/ wandb' = wandb /\ Raise("wandb_finish", "ExternalError")
    /\ UNCHANGED <<exit_code, inputs, args, hub, score_file, evaluation>>

\* if config.push_to_hub: trainer.push_to_hub()
PushToHub ==
    /\ pc = "push_to_hub"
    /\ \/ /\ config[1].push_to_hub
          /\ hub' = hub \cup {"push_to_hub"}
          /\ Done("push_to_hub")
       \/ /\ config[1].push_to_hub
          /\ hub' = hub
          /\ Raise("push_to_hub", "ExternalError")
       \/ /\ ~config[1].push_to_hub
          /\ pc' = After("push_to_hub")
          /\ UNCHANGED <<hub, trace, error>>
    /\ UNCHANGED <<exit_code, inputs, wandb, args, score_file, evaluation>>

(***************************************************************************)
(* evaluate(), lines 120-150.                                              *)
(***************************************************************************)
PrepareTest ==
    /\ pc = "prepare_test"
    /\ \/ Done("prepare_test")
       \/ Raise("prepare_test", "ExternalError")
    /\ UNCHANGED <<exit_code, inputs, services, evaluation>>

Predict ==
    /\ pc = "predict"
    /\ \/ Done("predict")
       \/ Raise("predict", "ExternalError")
    /\ UNCHANGED <<exit_code, inputs, services, evaluation>>

PostprocessPredictions ==
    /\ pc = "postprocess"
    /\ \/ \E m \in PredictionMaps : predictions' = m /\ Done("postprocess")
       \/ predictions' = predictions /\ Raise("postprocess", "ExternalError")
    /\ UNCHANGED <<exit_code, inputs, services, test_dataset, references,
                   metric_scores, scores>>

LoadMetric ==
    /\ pc = "load_metric"
    /\ \/ Done("load_metric")
       \/ Raise("load_metric", "ExternalError")
    /\ UNCHANGED <<exit_code, inputs, services, evaluation>>

\* [dict(id=k, prediction_text=v, no_answer_probability=0.)
\*  for k, v in predictions.items()]
PredictionRecords(items) ==
    [i \in 1..Len(items) |->
        [id |-> items[i].k, prediction_text |-> items[i].v,
         no_answer_probability |-> NoAnswerProbability]]

BuildPredictions ==
    /\ pc = "prediction_records"
    /\ predictions' = PredictionRecords(predictions)
    /\ Done("prediction_records")
    /\ UNCHANGED <<exit_code, inputs, services, test_dataset, references,
                   metric_scores, scores>>

\* A variant that leaves out the examples without answers.
ReferenceRecords_SkipsUnanswerable(dataset) ==
    LET kept == SelectSeq(dataset, LAMBDA x : x.answers.text # <<>>)
    IN  [i \in 1..Len(kept) |->
            [id |-> kept[i].id,
             answers |-> [text |-> kept[i].answers.text,
                          answer_start |-> kept[i].answers.answer_start]]]

\* [dict(id=example['id'], answers=dict(text=..., answer_start=...))
\*  for example in test_dataset]
ReferenceRecords(dataset) ==
    [i \in 1..Len(dataset) |->
        [id |-> dataset[i].id,
         answers |-> [text |-> dataset[i].answers.text,
                      answer_start |-> dataset[i].answers.answer_start]]]

BuildReferences ==
    /\ pc = "reference_records"
    /\ references' = ReferenceRecords(test_dataset)
    /\ Done("reference_records")
    /\ UNCHANGED <<exit_code, inputs, services, test_dataset, predictions,
                   metric_scores, scores>>

\* scores = metric.compute(predictions=predictions, references=references)
Compute ==
    /\ pc = "compute"
    /\ LET r == compute(predictions, references)
       IN  \/ r.raised = "" /\ metric_scores' = <<r>> /\ Done("compute")
           \/ r.raised # "" /\ metric_scores' = metric_scores /\ Raise("compute", r.raised)
    /\ UNCHANGED <<exit_code, inputs, services, test_dataset, predictions,
                   references, scores>>

\* return dict(em=scores['exact'], f1=scores['f1'])
ScoreReport(computed) == [em |-> computed.exact, f1 |-> computed.f1]

Return ==
    /\ pc = "return"
    /\ scores' = <<ScoreReport(metric_scores[1])>>
    /\ Done("return")
    /\ UNCHANGED <<exit_code, inputs, services, test_dataset, predictions,
                   references, metric_scores>>

(***************************************************************************)
(* The script: one run from the command line.                              *)
(***************************************************************************)
Init ==
    /\ argv \in Invocations
    /\ pc = "argv"
    /\ error = NoError
    /\ exit_code = <<>>
    /\ squad = <<>>
    /\ config = <<>>
    /\ wandb = [inits |-> 0, finishes |-> 0]
    /\ args = <<>>
    /\ hub = {}
    /\ score_file = NoFile
    /\ trace = <<>>
    /\ test_dataset = <<>>
    /\ predictions = <<>>
    /\ references = <<>>
    /\ metric_scores = <<>>
    /\ scores = <<>>

Evaluate ==
    \/ PrepareTest
    \/ Predict
    \/ PostprocessPredictions
    \/ LoadMetric
    \/ BuildPredictions
    \/ BuildReferences
    \/ Compute
    \/ Return

Train ==
    \/ WandbInit
    \/ InitPreparer
    \/ PrepareTrainVal
    \/ LoadModel
    \/ MakeTrainingArguments
    \/ InitTrainer
    \/ Fit
    \/ SetTestDataset
    \/ Evaluate
    \/ PrintScores
    \/ OpenScoreFile
    \/ WriteScores
    \/ WandbFinish
    \/ PushToHub

Next ==
    \/ CheckArgv
    \/ LoadDatasets
    \/ LoadConfig
    \/ Train
    \/ Exit

Spec == Init /\ [][Next]_vars

(***************************************************************************)
(* evaluate() on its own: called on any test dataset of the bounds, from   *)
(* the state train() is in at line 82.                                     *)
(***************************************************************************)
InitEvaluate ==
    /\ argv = <<"da">>
    /\ pc = "prepare_test"
    /\ error = NoError
    /\ exit_code = <<>>
    /\ test_dataset \in Datasets
    /\ squad = <<test_dataset>>
    /\ config = <<[push_to_hub |-> FALSE]>>
    /\ wandb = [inits |-> 1, finishes |-> 0]
    /\ args = <<TrainingArguments>>
    /\ hub = {"training_arguments"}
    /\ score_file = NoFile
    /\ trace = MainOrder \o TrainOrder
    /\ predictions = <<>>
    /\ references = <<>>
    /\ metric_scores = <<>>
    /\ scores = <<>>

SpecEvaluate == InitEvaluate /\ [][Evaluate]_vars

(***************************************************************************)
(* Properties.                                                             *)
(***************************************************************************)
Range(seq) == {seq[i] : i \in 1..Len(seq)}

Executed(step) == step \in Range(trace)

RunEnded == pc = "exited"

Failed == error.type # ""

\* The statements of preparation, model loading, fitting and evaluation.
BeforePersisting ==
    {"preparer", "prepare_train_val", "load_model", "training_arguments",
     "trainer", "fit", "test_dataset", "prepare_test", "predict",
     "postprocess", "load_metric", "prediction_records",
     "reference_records", "compute", "return"}

\* C1: when a run of train() has ended, by success or by a failure at any
\* statement, the tracking session it opened has been closed exactly once.
C1_SessionClosedOnceWhenRunEnds ==
    (RunEnded /\ wandb.inits = 1) => wandb.finishes = 1

\* C2: the score file exists only once evaluate() has returned a report
\* holding em and f1, and a run that failed in preparation, fitting or
\* evaluation has left no score file, empty or partial.
C2_ScoreFileOnlyAfterEvaluation ==
    /\ score_file.state # "absent" =>
          /\ Executed("return")
          /\ scores # <<>>
          /\ DOMAIN scores[1] = {"em", "f1"}
    /\ score_file.state = "complete" =>
          score_file.content = << <<"em", scores[1].em>>, <<"f1", scores[1].f1>> >>
    /\ (Failed /\ error.at \in BeforePersisting) => score_file = NoFile

C2_Witness ==
    /\ RunEnded
    /\ error.at = "compute"
    /\ score_file.state = "absent"

\* The ids of the predictions, as a mapping (before line 137) or as records.
PredictedIds ==
    IF Executed("prediction_records")
    THEN {predictions[i].id : i \in 1..Len(predictions)}
    ELSE {predictions[i].k : i \in 1..Len(predictions)}

ReferenceIds == {test_dataset[i].id : i \in 1..Len(test_dataset)}

\* metric.compute has been called: it returned or it raised.
Computed == Executed("compute") \/ error.at = "compute"

RawScores ==
    get_raw_scores(references,
                   ToDict([i \in 1..Len(predictions) |->
                             <<predictions[i].id, predictions[i].prediction_text>>],
                          1, <<>>))

\* C4: when the predicted ids and the reference ids are the same set, the
\* metric is handed one prediction record per key and one reference record
\* per example, scores exactly |R| pairs, and every id is in exactly one.
C4_OnePairPerId ==
    (Executed("reference_records") /\ PredictedIds = ReferenceIds) =>
        LET raw == RawScores
        IN  /\ Len(predictions) = Len(test_dataset)
            /\ Len(references) = Len(test_dataset)
            /\ Len(raw.exact) = Len(test_dataset)
            /\ Len(raw.f1) = Len(test_dataset)
            /\ \A id \in ReferenceIds :
                  /\ Cardinality({i \in 1..Len(raw.exact) : raw.exact[i].k = id}) = 1
                  /\ Cardinality({i \in 1..Len(raw.f1) : raw.f1[i].k = id}) = 1
                  /\ Cardinality({i \in 1..Len(predictions) : predictions[i].id = id}) = 1
                  /\ Cardinality({i \in 1..Len(references) : references[i].id = id}) = 1
            /\ metric_scores # <<>> => metric_scores[1].total = Len(test_dataset)

C4_Witness ==
    /\ Executed("compute")
    /\ PredictedIds = ReferenceIds
    /\ Len(test_dataset) = 2
    /\ metric_scores[1].total = 2
    /\ predictions[1].id # references[1].id

\* A fixed order of the ids, to put a list in one canonical order.
IdOrder == <<"q1", "q2", "q99">>

RECURSIVE InIdOrder(_, _)
InIdOrder(records, i) ==
    IF i > Len(IdOrder) THEN <<>>
    ELSE SelectSeq(records, LAMBDA r : r.id = IdOrder[i]) \o InIdOrder(records, i + 1)

C6_NoLanguageCodeIsFatal ==
    /\ Len(argv) = 0 =>
          /\ pc \in {"argv", "exit", "exited"}
          /\ pc # "argv" => error = [type |-> "ValueError", at |-> "argv"]
          /\ trace = <<>>
          /\ squad = <<>>
          /\ wandb = [inits |-> 0, finishes |-> 0]
          /\ hub = {}
          /\ score_file = NoFile
          /\ RunEnded => exit_code # <<0>>
    /\ (Len(argv) > 0 /\ RunEnded /\ ~Failed) => exit_code = <<0>>
    /\ (RunEnded /\ exit_code = <<0>>) => (Len(argv) > 0 /\ Executed("wandb_finish"))

C6_Witness ==
    /\ RunEnded
    /\ Len(argv) = 0
    /\ exit_code = <<1>>

\* The per-example scores of the example at index i of the references.
ExactOf(i) == DictGet(RawScores.exact, references[i].id)

F1Of(i) == DictGet(RawScores.f1, references[i].id)

PredictionOf(i) ==
    predictions[CHOOSE j \in 1..Len(predictions) : predictions[j].id = references[i].id].prediction_text

Unanswerable(i) == references[i].answers.text = <<>>

\* em is 100 times the share of the scored examples whose exact match is 1.
EmIsShareOfExactMatches ==
    LET raw == RawScores
        hits == Cardinality({i \in 1..Len(raw.exact) : raw.exact[i].v = RInt(1)})
    IN  /\ \A i \in 1..Len(raw.exact) : raw.exact[i].v \in {RInt(0), RInt(1)}
        /\ Len(raw.exact) = Len(references)
        /\ metric_scores[1].exact[1] * Len(references)
              = 100 * hits * metric_scores[1].exact[2]
        /\ scores # <<>> => scores[1].em = metric_scores[1].exact

\* Whether the example at index i scores 1 or 0, by exact match and by F1.
ScoresOne(raw, i, one) ==
    /\ DictGet(raw.exact, references[i].id) = (IF one THEN RInt(1) ELSE RInt(0))
    /\ DictGet(raw.f1, references[i].id) = (IF one THEN RInt(1) ELSE RInt(0))

\* C7 as claimed: em is 100 times the share of exact matches, and an
\* example without reference answers scores 1 (exact match and F1) exactly
\* when its prediction is the empty string, 0 otherwise.
C7_UnanswerableNeedsEmptyString ==
    Executed("compute") =>
        /\ EmIsShareOfExactMatches
        /\ LET raw == RawScores
           IN  \A i \in 1..Len(references) : Unanswerable(i) =>
                  ScoresOne(raw, i, PredictionOf(i) = <<>>)

\* C7 as amended: the same, with "normalises to the empty string" (empty,
\* or nothing but whitespace, punctuation and articles) for "is the empty
\* string".
C7_UnanswerableNeedsEmptyNormalised ==
    Executed("compute") =>
        /\ EmIsShareOfExactMatches
        /\ LET raw == RawScores
           IN  \A i \in 1..Len(references) : Unanswerable(i) =>
                  ScoresOne(raw, i, normalize_answer(PredictionOf(i)) = <<>>)

\* Two examples: an unanswerable one predicted "a." (scored 1) and an
\* answerable one predicted wrongly, hence em = 50.
C7_Witness ==
    /\ Executed("return")
    /\ Len(references) = 2
    /\ \E i, j \in 1..2 :
          /\ Unanswerable(i) /\ PredictionOf(i) = <<"a", ".">> /\ ExactOf(i) = RInt(1)
          /\ ~Unanswerable(j) /\ ExactOf(j) = RInt(0)
    /\ scores[1].em = RInt(50)

\* C8: when config.push_to_hub is false nothing asks for the model to be
\* published: not the last statement of train(), not the training arguments.
C8_NoPublishUnlessConfigured ==
    (config # <<>> /\ ~config[1].push_to_hub) =>
        /\ hub = {}
        /\ args # <<>> => ~args[1].push_to_hub

\* The stages of a run, in the order the claim gives them.
StageOf(step) ==
    CASE step \in {"argv", "load_datasets", "load_config"} -> 0
      [] step = "wandb_init" -> 1
      [] step \in {"preparer", "prepare_train_val"} -> 2
      [] step \in {"load_model", "training_arguments", "trainer", "fit"} -> 3
      [] step \in {"test_dataset", "prepare_test", "predict", "postprocess",
                   "load_metric", "prediction_records", "reference_records",
                   "compute", "return"} -> 4
      [] step \in {"print", "open_score_file", "write_scores"} -> 5
      [] step = "wandb_finish" -> 6
      [] step = "push_to_hub" -> 7
      [] OTHER -> 8

\* C9: the stages of a run follow each other and never overlap: session,
\* preparation, fitting, evaluation, persisting; a stage starts only when
\* every statement of the stages before it has run, no statement runs
\* twice, and after a failure no further statement runs.
C9_StagesInOrder ==
    /\ \A i, j \in 1..Len(trace) :
          /\ i < j => StageOf(trace[i]) <= StageOf(trace[j])
          /\ i # j => trace[i] # trace[j]
    /\ Executed("prepare_train_val") => Executed("wandb_init")
    /\ Executed("fit") => {"preparer", "prepare_train_val"} \subseteq Range(trace)
    /\ Executed("prepare_test") =>
          {"load_model", "training_arguments", "trainer", "fit"} \subseteq Range(trace)
    /\ Executed("open_score_file") =>
          {"prepare_test", "predict", "postprocess", "load_metric",
           "prediction_records", "reference_records", "compute", "return"}
             \subseteq Range(trace)
    /\ Failed =>
          /\ pc \in {"exit", "exited"}
          /\ ~Executed(error.at)
          /\ \A i \in 1..Len(trace) : StageOf(trace[i]) <= StageOf(error.at)
    /\ (RunEnded /\ ~Failed) =>
          Range(trace) \cup {"push_to_hub"} =
             {"argv", "load_datasets", "load_config", "wandb_init", "preparer",
              "prepare_train_val", "load_model", "training_arguments", "trainer",
              "fit", "test_dataset", "prepare_test", "predict", "postprocess",
              "load_metric", "prediction_records", "reference_records",
              "compute", "return", "print", "open_score_file", "write_scores",
              "wandb_finish", "push_to_hub"}

C9_Witness ==
    /\ RunEnded
    /\ error.at = "fit"
    /\ Executed("prepare_train_val")
    /\ ~Executed("prepare_test")

\* C10: trainer.push_to_hub() is called only once the score file holds the
\* whole report and the tracking session is closed, so a failure of that
\* call leaves both that way.
C10_PublishAfterScoresAndFinish ==
    (pc = "push_to_hub" \/ "push_to_hub" \in hub \/ error.at = "push_to_hub") =>
        /\ score_file.state = "complete"
        /\ score_file.content = << <<"em", scores[1].em>>, <<"f1", scores[1].f1>> >>
        /\ wandb = [inits |-> 1, finishes |-> 1]

C10_Witness ==
    /\ RunEnded
    /\ error.at = "push_to_hub"
    /\ score_file.state = "complete"
    /\ wandb.finishes = 1

=============================================================================
